---- MODULE Spec2Model ----
(***************************************************************************)
(* A model of the direct runner's transform evaluators                     *)
(* (apache_beam/runners/direct/transform_evaluator.py): the evaluator      *)
(* registry, the bundle splitting helper and the bounded-read, Flatten,    *)
(* ParDo, GroupByKeyOnly, native-write (sink) and splittable-work          *)
(* evaluators.  Each component has a specification of its own (SpecGBK,    *)
(* SpecSink, SpecSplit, SpecRegistry, SpecSDF, SpecFlatten, SpecRead,      *)
(* SpecParDo); the variables of the other components are left unchanged.   *)
(*                                                                         *)
(* Python `assert` statements are modelled as active (no -O).  The keyed   *)
(* state store, the watermark manager and the coders are collaborators     *)
(* whose code is outside the modelled files; they are modelled from their  *)
(* documented contract.                                                    *)
(***************************************************************************)
EXTENDS Integers, Sequences, FiniteSets, TLC

VARIABLES
  \* ---- GroupByKeyOnly step
  gbk_pc,                 \* "idle" | "started" | "aborted"
  gbk_input_watermark,    \* the step's input watermark
  keyed_existing_state,   \* encoded key (or None) -> keyed state of the step
  gbk_last,               \* outcome of the last call on the evaluator
  gbk_appended,           \* history: every (key, value) appended, in order
  gbk_emitted,            \* history: every output bundle of every finish_bundle
  gbk_calls,              \* number of process_element calls made so far
  gbk_finals,             \* history: finish_bundle calls made at +inf (saturating)
  gbk_start_state,        \* history: the keyed state when the bundle was started
  gbk_element,            \* history: the element of the last process_element call
  \* ---- native-write (sink) step
  sink_pc,                \* "idle" | "started" | "finished" | "aborted"
  sink_input_watermark,
  sink_output_watermark,
  sink_elements,          \* global keyed state, ELEMENTS_TAG list
  sink_writer_closes,     \* history: number of writers closed
  sink_writer_opens,      \* history: number of writers opened
  sink_written,           \* history: every value passed to writer.Write
  sink_last,              \* outcome of the last finish_bundle call
  sink_input,             \* history: every element given to process_element
  sink_calls,             \* number of process_element calls made so far
  \* ---- _split_list_into_bundles
  split_pc,               \* "init" | "loop" | "done"
  split_elements,         \* argument: the elements
  split_size_fn,          \* argument: element_size_fn
  split_cap,              \* argument: max_element_per_bundle
  split_i,                \* number of elements consumed by the for loop
  split_st,               \* locals: bundles, bundle_size
  \* ---- TransformEvaluatorRegistry.for_application
  reg_pc,                 \* "idle" | "walk" | "walked" | "done"
  reg_call,               \* arguments of the call in progress
  reg_mro,                \* classes of the mro not yet visited
  reg_evaluator,          \* local variable `evaluator`
  reg_outcome,            \* what the call returned or raised
  reg_effects,            \* history: start_bundle runs, bundles created
  reg_serial,             \* <<b>>: should_execute_serially returned b; <<>>: not called
  \* ---- _ProcessElemenetsEvaluator.__init__, one construction per thread
  sdf_dofn,               \* applied_ptransform.transform.dofn, shared
  sdf_pc,                 \* thread -> position in __init__
  sdf_user_do_fn,         \* thread -> local user_do_fn
  sdf_process_fn,         \* thread -> self.process_fn
  sdf_par_do_dofn,        \* thread -> the dofn the inner ParDo evaluator runs
  \* ---- _FlattenEvaluator, one evaluator per invocation
  flat_pc,                \* "idle" | "started"
  flat_bundle,            \* self.bundle: the elements output to it
  flat_given,             \* history: elements given to this invocation
  flat_last,              \* outcome of the last call
  flat_invocations,       \* number of invocations started so far
  \* ---- _BoundedReadEvaluator, one evaluator
  read_pc,                \* "idle" | "started" | "split" | "done"
  read_i,                 \* elements of read_result consumed by the split loop
  read_st,                \* locals of _split_list_into_bundles
  read_call,              \* arguments of the constructor
  read_source,            \* the values the source yields, in read order
  read_last,              \* outcome of the last call
  \* ---- _ParDoEvaluator and its _TaggedReceivers, one evaluator
  pardo_pc,               \* "idle" | "started" | "done"
  pardo_has_cache,        \* evaluation_context.has_cache
  pardo_receivers,        \* the dict itself: declared tag -> output bundle
  pardo_undeclared,       \* _undeclared_in_memory_tag_values
  pardo_null_receiver,    \* _null_receiver has been created
  pardo_emitted,          \* history: every (tag, value) the DoFn emitted
  pardo_last,             \* what finish_bundle returned or raised
  pardo_declared,         \* history: the output tags declared at start_bundle
  \* ---- OutputAndTimeBoundSplittableProcessElementInvoker, one call
  inv_pc,                 \* "idle" | "asserts" | "invoke" | "check_done" | "return" | "done"
  inv_args,               \* arguments of invoke_process_element
  inv_claimed,            \* the part of the restriction the tracker has claimed
  inv_trace,              \* history: the calls made by invoke_process_element
  inv_outcome,            \* what the call returned or raised
  \* ---- _PipelineContextMap (pipeline_context.py)
  ctx_obj_to_id,          \* self._obj_to_id
  ctx_id_to_obj,          \* self._id_to_obj
  ctx_id_to_proto,        \* self._id_to_proto
  ctx_counter,            \* self._counter
  ctx_proto_map,          \* history: the proto_map the map was constructed from
  ctx_last                \* history: the last call, its argument and its result

gbkVars == <<gbk_start_state, gbk_element, gbk_pc, gbk_input_watermark, keyed_existing_state, gbk_last,
             gbk_appended, gbk_emitted, gbk_calls, gbk_finals>>
sinkVars == <<sink_pc, sink_input_watermark, sink_output_watermark,
              sink_elements, sink_writer_closes, sink_writer_opens,
              sink_written, sink_last, sink_input, sink_calls>>
splitVars == <<split_pc, split_elements, split_size_fn, split_cap, split_i,
               split_st>>
regVars == <<reg_serial, reg_pc, reg_call, reg_mro, reg_evaluator, reg_outcome,
             reg_effects>>
sdfVars == <<sdf_dofn, sdf_pc, sdf_user_do_fn, sdf_process_fn,
             sdf_par_do_dofn>>
flatVars == <<flat_pc, flat_bundle, flat_given, flat_last, flat_invocations>>
readVars == <<read_i, read_st, read_pc, read_call, read_source, read_last>>
pardoVars == <<pardo_declared, pardo_pc, pardo_has_cache, pardo_receivers, pardo_undeclared,
               pardo_null_receiver, pardo_emitted, pardo_last>>
invVars == <<inv_pc, inv_args, inv_claimed, inv_trace, inv_outcome>>
ctxVars == <<ctx_obj_to_id, ctx_id_to_obj, ctx_id_to_proto, ctx_counter,
             ctx_proto_map, ctx_last>>
vars == <<gbkVars, sinkVars, splitVars, regVars, sdfVars, flatVars,
          readVars, pardoVars, invVars, ctxVars>>

\* a step of one component leaves the other components alone
GbkOnly == UNCHANGED <<sinkVars, splitVars, regVars, sdfVars, flatVars,
                       readVars, pardoVars, invVars, ctxVars>>
SinkOnly == UNCHANGED <<gbkVars, splitVars, regVars, sdfVars, flatVars,
                        readVars, pardoVars, invVars, ctxVars>>
SplitOnly == UNCHANGED <<gbkVars, sinkVars, regVars, sdfVars, flatVars,
                         readVars, pardoVars, invVars, ctxVars>>
RegOnly == UNCHANGED <<gbkVars, sinkVars, splitVars, sdfVars, flatVars,
                       readVars, pardoVars, invVars, ctxVars>>
SdfOnly == UNCHANGED <<gbkVars, sinkVars, splitVars, regVars, flatVars,
                       readVars, pardoVars, invVars, ctxVars>>
FlatOnly == UNCHANGED <<gbkVars, sinkVars, splitVars, regVars, sdfVars,
                        readVars, pardoVars, invVars, ctxVars>>
ReadOnly == UNCHANGED <<gbkVars, sinkVars, splitVars, regVars, sdfVars,
                        flatVars, pardoVars, invVars, ctxVars>>
ParDoOnly == UNCHANGED <<gbkVars, sinkVars, splitVars, regVars, sdfVars,
                         flatVars, readVars, invVars, ctxVars>>
InvOnly == UNCHANGED <<gbkVars, sinkVars, splitVars, regVars, sdfVars,
                       flatVars, readVars, pardoVars, ctxVars>>
CtxOnly == UNCHANGED <<gbkVars, sinkVars, splitVars, regVars, sdfVars,
                       flatVars, readVars, pardoVars, invVars>>

(***************************************************************************)
(* Bounds of the model.                                                    *)
(***************************************************************************)
\* process_element calls made on the GroupByKeyOnly step over a run
MaxGbkCalls == 3
\* final finish_bundle calls counted on the GroupByKeyOnly step (saturating)
MaxGbkFinals == 2
\* invocations of the Flatten evaluator over a run
MaxFlattenInvocations == 3
\* elements given to one invocation of the Flatten evaluator
MaxFlattenLen == 3
\* full bundles' worth of elements a source holds (plus or minus one)
MaxReadBundles == 2
\* outputs the DoFn emits during one ParDo evaluation
MaxParDoOutputs == 3
\* ids one _PipelineContextMap generates over a run
MaxContextRefs == 3
\* size of the restriction a tracker is given
MaxRestriction == 3
\* process_element calls made on the sink step over a run
MaxSinkCalls == 3
\* length of the element list given to _split_list_into_bundles
MaxSplitLen == 3
\* largest integer cap given to _split_list_into_bundles
MaxCap == 3
\* largest value returned by an element_size_fn
MaxSize == 2
\* largest number of output collections of an applied transform
MaxOutputs == 2

(***************************************************************************)
(* Watermarks.  WatermarkManager.WATERMARK_NEG_INF / WATERMARK_POS_INF are *)
(* the two ends; "T" stands for a concrete timestamp in between.           *)
(***************************************************************************)
WATERMARK_NEG_INF == "NEG_INF"
WATERMARK_POS_INF == "POS_INF"
WatermarkOrder == <<WATERMARK_NEG_INF, "T", WATERMARK_POS_INF>>
Watermarks == {WatermarkOrder[i] : i \in DOMAIN WatermarkOrder}
WmRank(w) == CHOOSE i \in DOMAIN WatermarkOrder : WatermarkOrder[i] = w
WmLess(a, b) == WmRank(a) < WmRank(b)
WmMin(a, b) == IF WmLess(b, a) THEN b ELSE a
WmMax(a, b) == IF WmLess(a, b) THEN b ELSE a

(***************************************************************************)
(* _TransformEvaluator._split_list_into_bundles.  A cap is <<>> for None   *)
(* and <<n>> for the integer n; Python's truth test of the cap is false    *)
(* for None and for 0.  A bundle is the sequence of elements output to it. *)
(***************************************************************************)
NoneCap == <<>>
IntCap(n) == <<n>>
Truthy(cap) == cap # NoneCap /\ cap[1] # 0

\* the test of line 157
StartsNewBundleStrict(st, cap) == Truthy(cap) /\ st.bundle_size > cap[1]
StartsNewBundle(st, cap) == Truthy(cap) /\ st.bundle_size >= cap[1]

\* lines 153-155: the first bundle is created before the loop
SplitInit == [bundles |-> <<(<<>>)>>, bundle_size |-> 0]

\* lines 157-163: one iteration of the for loop
SplitStepOutputsToFirst(st, element, size, cap) ==
  LET opened == IF StartsNewBundle(st, cap)
                  THEN [bundles |-> Append(st.bundles, <<>>), bundle_size |-> 0]
                  ELSE st
  IN [bundles |-> [opened.bundles EXCEPT ![1] = Append(@, element)],
      bundle_size |-> opened.bundle_size + size]
SplitStepKeepsSize(st, element, size, cap) ==
  LET opened == IF StartsNewBundle(st, cap)
                  THEN [bundles |-> Append(st.bundles, <<>>),
                        bundle_size |-> st.bundle_size]
                  ELSE st
  IN [bundles |-> [opened.bundles EXCEPT ![Len(opened.bundles)] =
                     Append(@, element)],
      bundle_size |-> opened.bundle_size + size]
SplitStep(st, element, size, cap) ==
  LET opened == IF StartsNewBundle(st, cap)
                  THEN [bundles |-> Append(st.bundles, <<>>), bundle_size |-> 0]
                  ELSE st
  IN [bundles |-> [opened.bundles EXCEPT ![Len(opened.bundles)] =
                     Append(@, element)],
      bundle_size |-> opened.bundle_size + size]

RECURSIVE SplitLoop(_, _, _, _)
SplitLoop(st, elements, sizes, cap) ==
  IF elements = <<>> THEN st
  ELSE SplitLoop(SplitStep(st, Head(elements), Head(sizes), cap),
                 Tail(elements), Tail(sizes), cap)

\* the whole helper: the bundles returned for `elements`, whose sizes under
\* element_size_fn are `sizes`
SplitListIntoBundles(elements, sizes, cap) ==
  SplitLoop(SplitInit, elements, sizes, cap).bundles

(***************************************************************************)
(* Keyed state of a step: per (encoded) key a list state ELEMENTS_TAG and  *)
(* a combining state COMPLETION_TAG (combine function `any`).              *)
(***************************************************************************)
EmptyState == [elements |-> <<>>, completed |-> FALSE]

\* get_keyed_state(key): the state of `key`, created on first use
GetKeyedState(store, key) ==
  IF key \in DOMAIN store THEN store
  ELSE [k \in DOMAIN store \cup {key} |->
          IF k = key THEN EmptyState ELSE store[k]]

\* add_state(None, ELEMENTS_TAG, v) on the state of `key`
AddElement(store, key, v) ==
  [store EXCEPT ![key].elements = Append(@, v)]

\* add_state(None, COMPLETION_TAG, b) on the state of `key`: any(...)
AddCompletion(store, key, b) ==
  [store EXCEPT ![key].completed = (@ \/ b)]

\* the key coder: encode and decode
NoneKey == <<>>
Encode(k) == <<k>>
Decode(encoded_k) == encoded_k[1]

(***************************************************************************)
(* Elements.  An element is windowed (a WindowedValue) or not; its payload *)
(* has a Python type and items.  Tuples and lists are Iterable, ints are   *)
(* not.                                                                    *)
(***************************************************************************)
GbkKeys == {"k1", "k2"}
GbkValues == {"a", "b"}
WindowedValue(type, items) == [windowed |-> TRUE, type |-> type, items |-> items]
Unwindowed(type, items) == [windowed |-> FALSE, type |-> type, items |-> items]
GbkElements ==
  {WindowedValue("tuple", <<k, v>>) : k \in GbkKeys, v \in GbkValues}
    \cup {WindowedValue("list", <<"k1", "a">>),
          WindowedValue("tuple", <<"k1", "a", "b">>),
          WindowedValue("int", <<"a">>),
          WindowedValue("generator", <<"k1", "a">>),
          Unwindowed("tuple", <<"k1", "a">>)}
\* isinstance(value, collections.Iterable)
IsIterable(e) == e.type \in {"tuple", "list", "generator"}
\* len(value) is defined: a generator is iterable and has no len
IsSized(e) == e.type \in {"tuple", "list"}

\* every ordering of a finite set: the iteration orders of a dict
Orderings(S) ==
  {s \in [1..Cardinality(S) -> S] :
     \A i, j \in 1..Cardinality(S) : i # j => s[i] # s[j]}

NoCall == [op |-> "none", status |-> "ok", bundles |-> <<>>, hold |-> "none"]
Outcome(op, status, bundles, hold) ==
  [op |-> op, status |-> status, bundles |-> bundles, hold |-> hold]

(***************************************************************************)
(* _GroupByKeyOnlyEvaluator.  One evaluator is built per bundle; under     *)
(* serial execution one start..finish cycle is in flight at a time.        *)
(***************************************************************************)
GbkGlobalCompleted ==
  NoneKey \in DOMAIN keyed_existing_state
    /\ keyed_existing_state[NoneKey].completed

\* _is_final_bundle, lines 351-354
GbkIsFinalBundleAlways == TRUE
GbkIsFinalBundle == gbk_input_watermark = WATERMARK_POS_INF

\* the scheduler's watermark manager advances the input watermark
GBK_AdvanceWatermark ==
  /\ GbkOnly
  /\ gbk_pc # "aborted"
  /\ \E w \in Watermarks :
       /\ WmLess(gbk_input_watermark, w)
       /\ gbk_input_watermark' = w
  /\ UNCHANGED <<gbk_pc, keyed_existing_state, gbk_last, gbk_appended,
                 gbk_emitted, gbk_calls, gbk_finals, gbk_start_state,
                 gbk_element>>

\* __init__ and start_bundle, lines 344-366
GBK_StartBundle ==
  /\ GbkOnly
  /\ gbk_pc = "idle"
  /\ gbk_pc' = "started"
  /\ keyed_existing_state' = GetKeyedState(keyed_existing_state, NoneKey)
  /\ gbk_start_state' = keyed_existing_state'
  /\ gbk_last' = Outcome("start_bundle", "ok", <<>>, "none")
  /\ UNCHANGED <<gbk_input_watermark, gbk_appended, gbk_emitted, gbk_calls,
                 gbk_finals, gbk_element>>

\* the shape test of lines 371-373; len() raises TypeError on an iterable
\* that has no length
GbkLenRaises(e) == e.windowed /\ IsIterable(e) /\ ~IsSized(e)
GbkAcceptsAnyLength(e) == e.windowed /\ IsIterable(e) /\ IsSized(e)
GbkAccepts(e) ==
  e.windowed /\ IsIterable(e) /\ IsSized(e) /\ Len(e.items) = 2

\* the assert of lines 369-370
GbkAssertNotCompletedMissing == TRUE
GbkAssertNotCompleted == ~GbkGlobalCompleted

\* process_element, lines 368-381
GBK_ProcessElement(e) ==
  /\ GbkOnly
  /\ gbk_pc = "started"
  /\ gbk_calls < MaxGbkCalls
  /\ gbk_calls' = gbk_calls + 1
  /\ gbk_element' = e
  /\ IF ~GbkAssertNotCompleted
       THEN \* the assert of line 369 fails
            /\ gbk_pc' = "aborted"
            /\ gbk_last' = Outcome("process_element", "AssertionError", <<>>, "none")
            /\ UNCHANGED <<keyed_existing_state, gbk_appended>>
       ELSE IF GbkLenRaises(e)
         THEN \* TypeError out of len(): the bundle's evaluation is abandoned
              /\ gbk_pc' = "idle"
              /\ gbk_last' = Outcome("process_element", "TypeError", <<>>, "none")
              /\ UNCHANGED <<keyed_existing_state, gbk_appended>>
       ELSE IF GbkAccepts(e)
         THEN LET k == e.items[1]
                  v == e.items[2]
                  encoded_k == Encode(k)
              IN /\ keyed_existing_state' =
                      AddElement(GetKeyedState(keyed_existing_state, encoded_k),
                                 encoded_k, v)
                 /\ gbk_appended' = Append(gbk_appended, <<k, v>>)
                 /\ gbk_pc' = "started"
                 /\ gbk_last' = Outcome("process_element", "ok", <<>>, "none")
         ELSE \* TypeCheckError: the bundle's evaluation is abandoned
              /\ gbk_pc' = "idle"
              /\ gbk_last' = Outcome("process_element", "TypeCheckError", <<>>, "none")
              /\ UNCHANGED <<keyed_existing_state, gbk_appended>>
  /\ UNCHANGED <<gbk_input_watermark, gbk_emitted, gbk_finals,
                 gbk_start_state>>

\* len_element_fn, lines 403-405
LenElementFn(element) == Len(element.items[2])

\* lines 385-409: the output bundles of a final finish_bundle; `order` is
\* the iteration order of keyed_existing_state
GbkFinalBundlesAlwaysEmits(order) ==
  LET gbk_result ==
        [i \in 1..Len(order) |->
           WindowedValue("tuple",
             <<Decode(order[i]), keyed_existing_state[order[i]].elements>>)]
      sizes == [i \in 1..Len(order) |-> LenElementFn(gbk_result[i])]
  IN SplitListIntoBundles(gbk_result, sizes, NoneCap)
GbkFinalBundles(order) ==
  IF GbkGlobalCompleted THEN <<>>
  ELSE LET gbk_result ==
             [i \in 1..Len(order) |->
                WindowedValue("tuple",
                  <<Decode(order[i]),
                    keyed_existing_state[order[i]].elements>>)]
           sizes == [i \in 1..Len(order) |-> LenElementFn(gbk_result[i])]
       IN SplitListIntoBundles(gbk_result, sizes, NoneCap)

\* lines 411-412: the completion flag is set
GbkMarkCompletedForgotten(store) == store
GbkMarkCompletedClears(store) ==
  [key \in DOMAIN store |->
     [elements |-> <<>>, completed |-> (key = NoneKey \/ store[key].completed)]]
GbkMarkCompleted(store) == AddCompletion(store, NoneKey, TRUE)

\* finish_bundle, lines 383-419
GBK_FinishBundle ==
  /\ GbkOnly
  /\ gbk_pc = "started"
  /\ gbk_pc' = "idle"
  /\ IF GbkIsFinalBundle
       THEN \E order \in Orderings(DOMAIN keyed_existing_state \ {NoneKey}) :
              LET bundles == GbkFinalBundles(order)
              IN /\ keyed_existing_state' = GbkMarkCompleted(keyed_existing_state)
                 /\ gbk_last' = Outcome("finish_bundle", "ok", bundles,
                                        WATERMARK_POS_INF)
                 /\ gbk_emitted' = gbk_emitted \o bundles
       ELSE /\ gbk_last' = Outcome("finish_bundle", "ok", <<>>,
                                   WATERMARK_NEG_INF)
            /\ UNCHANGED <<keyed_existing_state, gbk_emitted>>
  /\ gbk_finals' = IF gbk_input_watermark = WATERMARK_POS_INF
                        /\ gbk_finals < MaxGbkFinals
                     THEN gbk_finals + 1 ELSE gbk_finals
  /\ UNCHANGED <<gbk_input_watermark, gbk_appended, gbk_calls,
                 gbk_start_state, gbk_element>>

GbkInit ==
  /\ gbk_pc = "idle"
  /\ gbk_input_watermark = WATERMARK_NEG_INF
  /\ keyed_existing_state = <<>>
  /\ gbk_last = NoCall
  /\ gbk_appended = <<>>
  /\ gbk_emitted = <<>>
  /\ gbk_calls = 0
  /\ gbk_finals = 0
  /\ gbk_start_state = <<>>
  /\ gbk_element = Unwindowed("none", <<>>)

GbkNext ==
  \/ GBK_AdvanceWatermark
  \/ GBK_StartBundle
  \/ \E e \in GbkElements : GBK_ProcessElement(e)
  \/ GBK_FinishBundle

(***************************************************************************)
(* _NativeWriteEvaluator.  The step's global keyed state holds one list    *)
(* (ELEMENTS_TAG); the sink's writer is a scoped resource, closed when the *)
(* with block of lines 470-472 is left, normally or by an exception.       *)
(***************************************************************************)
SinkValues == {"x", "y"}
SinkElements == {WindowedValue("int", <<x>>) : x \in SinkValues}
\* v.value of a windowed scalar
ScalarValue(e) == e.items[1]

\* _is_final_bundle, lines 437-440
SinkIsFinalBundleAlways == TRUE
SinkIsFinalBundle == sink_input_watermark = WATERMARK_POS_INF

\* _has_already_produced_output, lines 442-445
SinkHasAlreadyProducedOutputNever == FALSE
SinkHasAlreadyProducedOutput == sink_output_watermark = WATERMARK_POS_INF

\* the scheduler's watermark manager advances the input watermark
Sink_AdvanceWatermark ==
  /\ SinkOnly
  /\ sink_pc # "aborted"
  /\ \E w \in Watermarks :
       /\ WmLess(sink_input_watermark, w)
       /\ sink_input_watermark' = w
  /\ UNCHANGED <<sink_pc, sink_output_watermark, sink_elements,
                 sink_writer_closes, sink_writer_opens, sink_written,
                 sink_last, sink_input, sink_calls>>

\* __init__ and start_bundle, lines 427-449
Sink_StartBundle ==
  /\ SinkOnly
  /\ sink_pc = "idle"
  /\ sink_pc' = "started"
  /\ UNCHANGED <<sink_input_watermark, sink_output_watermark, sink_elements,
                 sink_writer_closes, sink_writer_opens, sink_written,
                 sink_last, sink_input, sink_calls>>

\* process_element, lines 451-453.  An input watermark of +inf means that
\* the input is exhausted: no element is delivered after it.
Sink_ProcessElement(e) ==
  /\ SinkOnly
  /\ sink_pc = "started"
  /\ sink_calls < MaxSinkCalls
  /\ sink_input_watermark # WATERMARK_POS_INF
  /\ sink_calls' = sink_calls + 1
  /\ sink_elements' = Append(sink_elements, e)
  /\ sink_input' = Append(sink_input, e)
  /\ UNCHANGED <<sink_pc, sink_input_watermark, sink_output_watermark,
                 sink_writer_closes, sink_writer_opens, sink_written,
                 sink_last>>

\* the with block of lines 470-472: the number of times the writer is
\* closed when the block is left, by its end or by a raising Write
SinkWithBlockClosesOnSuccessOnly(fail_at) == IF fail_at = 0 THEN 1 ELSE 0
SinkWithBlockCloses(fail_at) == 1

\* finish_bundle, lines 455-478.  `fail_at` = 0: every Write succeeds;
\* `fail_at` = i > 0: the i-th Write raises.
SinkFinish(fail_at) ==
  /\ SinkOnly
  /\ sink_pc = "started"
  /\ IF SinkIsFinalBundle
       THEN LET elements == sink_elements
            IN IF SinkHasAlreadyProducedOutput
                 THEN \* line 467
                      /\ fail_at = 0
                      /\ IF elements = <<>>
                           THEN /\ sink_pc' = "finished"
                                /\ sink_last' = Outcome("finish_bundle", "ok",
                                                  <<>>, WATERMARK_POS_INF)
                           ELSE /\ sink_pc' = "aborted"
                                /\ sink_last' = Outcome("finish_bundle",
                                                  "AssertionError", <<>>, "none")
                      /\ UNCHANGED <<sink_writer_opens, sink_writer_closes,
                                     sink_written>>
                 ELSE \* lines 469-472
                      LET n == IF fail_at = 0 THEN Len(elements)
                               ELSE fail_at - 1
                      IN /\ fail_at <= Len(elements)
                         /\ sink_writer_opens' = sink_writer_opens + 1
                         /\ sink_written' = sink_written \o
                              [i \in 1..n |-> ScalarValue(elements[i])]
                         /\ sink_writer_closes' =
                              sink_writer_closes + SinkWithBlockCloses(fail_at)
                         /\ IF fail_at = 0
                              THEN /\ sink_pc' = "finished"
                                   /\ sink_last' = Outcome("finish_bundle", "ok",
                                                     <<>>, WATERMARK_POS_INF)
                              ELSE /\ sink_pc' = "aborted"
                                   /\ sink_last' = Outcome("finish_bundle",
                                                     "WriteError", <<>>, "none")
       ELSE /\ fail_at = 0
            /\ sink_pc' = "finished"
            /\ sink_last' = Outcome("finish_bundle", "ok", <<>>,
                                    WATERMARK_NEG_INF)
            /\ UNCHANGED <<sink_writer_opens, sink_writer_closes, sink_written>>
  /\ UNCHANGED <<sink_input_watermark, sink_output_watermark, sink_elements,
                 sink_input, sink_calls>>

Sink_FinishBundle == \E fail_at \in 0..MaxSinkCalls : SinkFinish(fail_at)

\* the scheduler consumes the TransformResult: the step's output watermark
\* becomes the minimum of its input watermark and the hold, never receding
Sink_CommitResult ==
  /\ SinkOnly
  /\ sink_pc = "finished"
  /\ sink_pc' = "idle"
  /\ sink_output_watermark' =
       WmMax(sink_output_watermark,
             WmMin(sink_input_watermark, sink_last.hold))
  /\ UNCHANGED <<sink_input_watermark, sink_elements, sink_writer_closes,
                 sink_writer_opens, sink_written, sink_last, sink_input,
                 sink_calls>>

SinkInit ==
  /\ sink_pc = "idle"
  /\ sink_input_watermark = WATERMARK_NEG_INF
  /\ sink_output_watermark = WATERMARK_NEG_INF
  /\ sink_elements = <<>>
  /\ sink_writer_closes = 0
  /\ sink_writer_opens = 0
  /\ sink_written = <<>>
  /\ sink_last = NoCall
  /\ sink_input = <<>>
  /\ sink_calls = 0

SinkNext ==
  \/ Sink_AdvanceWatermark
  \/ Sink_StartBundle
  \/ \E e \in SinkElements : Sink_ProcessElement(e)
  \/ Sink_FinishBundle
  \/ Sink_CommitResult

(***************************************************************************)
(* _split_list_into_bundles, one loop iteration at a time, on arguments    *)
(* drawn from bounded sets.                                                *)
(***************************************************************************)
SplitItems == {"e1", "e2"}
SplitInputs ==
  UNION {[1..n -> SplitItems] : n \in 0..MaxSplitLen}
\* a cap is None or any integer, a size any integer: neither is validated
SplitCaps == {NoneCap} \cup {IntCap(n) : n \in (-1)..MaxCap}
SplitSizeFns == [SplitItems -> (-1)..MaxSize]
NoLocals == [bundles |-> <<>>, bundle_size |-> 0]

\* lines 153-155
Split_Enter ==
  /\ SplitOnly
  /\ split_pc = "init"
  /\ split_pc' = "loop"
  /\ split_st' = SplitInit
  /\ UNCHANGED <<split_elements, split_size_fn, split_cap, split_i>>

\* lines 156-163, one element
Split_Iterate ==
  /\ SplitOnly
  /\ split_pc = "loop"
  /\ split_i < Len(split_elements)
  /\ LET element == split_elements[split_i + 1]
     IN split_st' = SplitStep(split_st, element, split_size_fn[element],
                              split_cap)
  /\ split_i' = split_i + 1
  /\ UNCHANGED <<split_pc, split_elements, split_size_fn, split_cap>>

\* line 164
Split_Return ==
  /\ SplitOnly
  /\ split_pc = "loop"
  /\ split_i = Len(split_elements)
  /\ split_pc' = "done"
  /\ UNCHANGED <<split_elements, split_size_fn, split_cap, split_i, split_st>>

SplitIdle ==
  /\ split_pc = "init"
  /\ split_elements = <<>>
  /\ split_size_fn = [x \in SplitItems |-> 0]
  /\ split_cap = NoneCap
  /\ split_i = 0
  /\ split_st = NoLocals

SplitInit0 ==
  /\ split_pc = "init"
  /\ split_elements \in SplitInputs
  /\ split_size_fn \in SplitSizeFns
  /\ split_cap \in SplitCaps
  /\ split_i = 0
  /\ split_st = NoLocals

SplitNext == Split_Enter \/ Split_Iterate \/ Split_Return

(***************************************************************************)
(* TransformEvaluatorRegistry.  A transform class has a sequence of direct *)
(* bases; its mro lists the class, then its ancestors, most-derived first. *)
(***************************************************************************)
Bases ==
  [object |-> <<>>,
   PTransform |-> <<"object">>,
   Read |-> <<"PTransform">>,
   Flatten |-> <<"PTransform">>,
   ParDo |-> <<"PTransform">>,
   _GroupByKeyOnly |-> <<"PTransform">>,
   _NativeWrite |-> <<"PTransform">>,
   ProcessKeyedElements |-> <<"PTransform">>,
   Create |-> <<"PTransform">>,
   MyParDo |-> <<"ParDo">>,
   MyOtherParDo |-> <<"MyParDo">>,
   MyGroupByKeyOnly |-> <<"_GroupByKeyOnly">>,
   MyWrite |-> <<"_NativeWrite">>,
   MyCreate |-> <<"Create">>,
   FlattenAndParDo |-> <<"Flatten", "ParDo">>,
   FlattenAndGroupByKeyOnly |-> <<"Flatten", "_GroupByKeyOnly">>]
Classes == DOMAIN Bases
TransformClasses == Classes \ {"object", "PTransform"}

\* a sequence without its repeated entries, the last occurrence kept
RECURSIVE KeepLast(_)
KeepLast(seq) ==
  IF seq = <<>> THEN <<>>
  ELSE IF \E i \in 2..Len(seq) : seq[i] = Head(seq)
         THEN KeepLast(Tail(seq))
         ELSE <<Head(seq)>> \o KeepLast(Tail(seq))

RECURSIVE Concat(_)
Concat(seqs) ==
  IF seqs = <<>> THEN <<>> ELSE Head(seqs) \o Concat(Tail(seqs))

\* cls.mro(), line 75
RECURSIVE Mro(_)
Mro(cls) ==
  <<cls>> \o KeepLast(Concat([i \in 1..Len(Bases[cls]) |-> Mro(Bases[cls][i])]))

\* self._evaluators, lines 57-64
Evaluators ==
  [Read |-> "_BoundedReadEvaluator",
   Flatten |-> "_FlattenEvaluator",
   ParDo |-> "_ParDoEvaluator",
   _GroupByKeyOnly |-> "_GroupByKeyOnlyEvaluator",
   _NativeWrite |-> "_NativeWriteEvaluator",
   ProcessKeyedElements |-> "_ProcessElemenetsEvaluator"]

\* self._evaluators.get(cls), line 76
EvaluatorsGet(cls) ==
  IF cls \in DOMAIN Evaluators THEN Evaluators[cls] ELSE "None"

RegCalls ==
  [cls : TransformClasses,
   transform_side_inputs : BOOLEAN,   \* applied_ptransform.side_inputs non-empty
   side_inputs : BOOLEAN,             \* side_inputs non-empty
   input_committed_bundle : BOOLEAN,  \* an input bundle is given
   n_outputs : 1..MaxOutputs]         \* number of output collections
NoEffects == [start_bundle_runs |-> 0, bundles_created |-> 0]
NoOutcome == [status |-> "none", evaluator |-> "None"]

\* for_application, lines 66-75: the asserts and the start of the walk
Reg_Call ==
  /\ RegOnly
  /\ reg_pc = "idle"
  /\ \E c \in RegCalls :
       /\ reg_call' = c
       /\ IF c.transform_side_inputs = c.side_inputs
            THEN /\ reg_pc' = "walk"
                 /\ reg_mro' = Mro(c.cls)
                 /\ reg_outcome' = NoOutcome
            ELSE /\ reg_pc' = "done"
                 /\ reg_mro' = <<>>
                 /\ reg_outcome' = [status |-> "AssertionError",
                                    evaluator |-> "None"]
  /\ UNCHANGED <<reg_evaluator, reg_effects, reg_serial>>

\* lines 75-78: one iteration of the walk up the class hierarchy
Reg_WalkNoBreak ==
  /\ RegOnly
  /\ reg_pc = "walk"
  /\ reg_evaluator' = EvaluatorsGet(Head(reg_mro))
  /\ reg_mro' = Tail(reg_mro)
  /\ reg_pc' = IF Tail(reg_mro) = <<>> THEN "walked" ELSE "walk"
  /\ UNCHANGED <<reg_call, reg_outcome, reg_effects, reg_serial>>
Reg_Walk ==
  /\ RegOnly
  /\ reg_pc = "walk"
  /\ LET evaluator == EvaluatorsGet(Head(reg_mro))
     IN /\ reg_evaluator' = evaluator
        /\ reg_mro' = Tail(reg_mro)
        /\ reg_pc' = IF evaluator # "None" \/ Tail(reg_mro) = <<>>
                       THEN "walked" ELSE "walk"
  /\ UNCHANGED <<reg_call, reg_outcome, reg_effects, reg_serial>>

\* the constructor of the evaluator class `evaluator`, start_bundle included:
\* the outcome and what it did
Construct(evaluator, c) ==
  LET raised(runs) ==
        [outcome |-> [status |-> "AssertionError", evaluator |-> "None"],
         effects |-> [start_bundle_runs |-> runs, bundles_created |-> 0]]
      built(bundles) ==
        [outcome |-> [status |-> "ok", evaluator |-> evaluator],
         effects |-> [start_bundle_runs |-> 1, bundles_created |-> bundles]]
  IN CASE evaluator = "_BoundedReadEvaluator" ->        \* lines 185-193
            IF c.input_committed_bundle \/ c.side_inputs THEN raised(0)
            ELSE built(0)
       [] evaluator = "_FlattenEvaluator" ->            \* lines 222-232
            IF c.side_inputs THEN raised(0)
            ELSE IF c.n_outputs # 1 THEN raised(1)
            ELSE built(1)
       [] evaluator = "_ParDoEvaluator" ->              \* lines 289-298
            built(c.n_outputs)
       [] evaluator = "_GroupByKeyOnlyEvaluator" ->     \* lines 344-361
            IF c.side_inputs THEN raised(0)
            ELSE IF c.n_outputs # 1 THEN raised(1)
            ELSE built(0)
       [] evaluator = "_NativeWriteEvaluator" ->        \* lines 427-449
            IF c.side_inputs THEN raised(0) ELSE built(0)
       [] evaluator = "_ProcessElemenetsEvaluator" ->   \* lines 483-503
            built(c.n_outputs)

\* lines 80-86: raise, or build the evaluator
Reg_FinishFallsBack ==
  /\ RegOnly
  /\ reg_pc = "walked"
  /\ reg_pc' = "done"
  /\ LET made == Construct(IF reg_evaluator = "None" THEN "_ParDoEvaluator"
                           ELSE reg_evaluator, reg_call)
     IN /\ reg_outcome' = made.outcome
        /\ reg_effects' = made.effects
  /\ UNCHANGED <<reg_call, reg_mro, reg_evaluator, reg_serial>>
Reg_Finish ==
  /\ RegOnly
  /\ reg_pc = "walked"
  /\ reg_pc' = "done"
  /\ IF reg_evaluator = "None"
       THEN /\ reg_outcome' = [status |-> "NotImplementedError",
                               evaluator |-> "None"]
            /\ UNCHANGED reg_effects
       ELSE LET made == Construct(reg_evaluator, reg_call)
            IN /\ reg_outcome' = made.outcome
               /\ reg_effects' = made.effects
  /\ UNCHANGED <<reg_call, reg_mro, reg_evaluator, reg_serial>>

RegInit ==
  /\ reg_pc = "idle"
  /\ reg_call = [cls |-> "object", transform_side_inputs |-> FALSE,
                 side_inputs |-> FALSE, input_committed_bundle |-> FALSE,
                 n_outputs |-> 1]
  /\ reg_mro = <<>>
  /\ reg_evaluator = "None"
  /\ reg_outcome = NoOutcome
  /\ reg_effects = NoEffects
  /\ reg_serial = <<>>

\* isinstance(obj, classes), obj an instance of cls
IsInstanceExactType(cls, classes) == cls \in classes
IsInstance(cls, classes) ==
  \E i \in DOMAIN Mro(cls) : Mro(cls)[i] \in classes

\* should_execute_serially, lines 88-108
ShouldExecuteSerially(cls) ==
  IsInstance(cls, {"_GroupByKeyOnly", "_NativeWrite"})

\* the executor asks should_execute_serially about the applied transform
Reg_ShouldExecuteSerially ==
  /\ RegOnly
  /\ reg_pc # "idle"
  /\ reg_serial = <<>>
  /\ reg_serial' = <<ShouldExecuteSerially(reg_call.cls)>>
  /\ UNCHANGED <<reg_pc, reg_call, reg_mro, reg_evaluator, reg_outcome,
                 reg_effects>>

RegNext == Reg_Call \/ Reg_Walk \/ Reg_Finish \/ Reg_ShouldExecuteSerially

(***************************************************************************)
(* _ProcessElemenetsEvaluator.__init__, lines 483-509.  The evaluators of  *)
(* one applied transform are built by the executor's worker threads, which *)
(* share the transform object; the constructor is not serial (lines        *)
(* 107-108), so its statements interleave.  A function object is a         *)
(* sequence of strings: the user's DoFn, or a ProcessFn wrapping one.      *)
(***************************************************************************)
SdfThreads == {"t1", "t2"}
UserDoFn == <<"user_do_fn">>
NoFn == <<>>
\* transform.new_process_fn(do_fn) called by thread t: a fresh ProcessFn
NewProcessFn(do_fn, t) == <<"ProcessFn", t>> \o do_fn

\* line 491: user_do_fn = transform.dofn
SDF_ReadDofn(t) ==
  /\ SdfOnly
  /\ sdf_pc[t] = "start"
  /\ sdf_user_do_fn' = [sdf_user_do_fn EXCEPT ![t] = sdf_dofn]
  /\ sdf_pc' = [sdf_pc EXCEPT ![t] = "read"]
  /\ UNCHANGED <<sdf_dofn, sdf_process_fn, sdf_par_do_dofn>>

\* line 492: self.process_fn = transform.new_process_fn(user_do_fn)
SDF_NewProcessFn(t) ==
  /\ SdfOnly
  /\ sdf_pc[t] = "read"
  /\ sdf_process_fn' =
       [sdf_process_fn EXCEPT ![t] = NewProcessFn(sdf_user_do_fn[t], t)]
  /\ sdf_pc' = [sdf_pc EXCEPT ![t] = "wrapped"]
  /\ UNCHANGED <<sdf_dofn, sdf_user_do_fn, sdf_par_do_dofn>>

\* line 493: transform.dofn = self.process_fn
SDF_SetProcessFn(t) ==
  /\ SdfOnly
  /\ sdf_pc[t] = "wrapped"
  /\ sdf_dofn' = sdf_process_fn[t]
  /\ sdf_pc' = [sdf_pc EXCEPT ![t] = "replaced"]
  /\ UNCHANGED <<sdf_user_do_fn, sdf_process_fn, sdf_par_do_dofn>>

\* line 500: applied_ptransform.transform.dofn = user_do_fn
SDF_ResetDofn(t) ==
  /\ SdfOnly
  /\ sdf_pc[t] = "replaced"
  /\ sdf_dofn' = sdf_user_do_fn[t]
  /\ sdf_pc' = [sdf_pc EXCEPT ![t] = "reset"]
  /\ UNCHANGED <<sdf_user_do_fn, sdf_process_fn, sdf_par_do_dofn>>

\* lines 501-503: the inner _ParDoEvaluator is built; its start_bundle
\* reads transform.dofn (line 304)
SDF_BuildParDoEvaluator(t) ==
  /\ SdfOnly
  /\ sdf_pc[t] = "reset"
  /\ sdf_par_do_dofn' = [sdf_par_do_dofn EXCEPT ![t] = sdf_dofn]
  /\ sdf_pc' = [sdf_pc EXCEPT ![t] = "built"]
  /\ UNCHANGED <<sdf_dofn, sdf_user_do_fn, sdf_process_fn>>

\* line 506: applied_ptransform.transform.dofn = user_do_fn
SDF_RestoreDofn(t) ==
  /\ SdfOnly
  /\ sdf_pc[t] = "built"
  /\ sdf_dofn' = sdf_user_do_fn[t]
  /\ sdf_pc' = [sdf_pc EXCEPT ![t] = "restored"]
  /\ UNCHANGED <<sdf_user_do_fn, sdf_process_fn, sdf_par_do_dofn>>

\* lines 508-509: process_fn.set_process_element_invoker(...)
SDF_SetInvoker(t) ==
  /\ SdfOnly
  /\ sdf_pc[t] = "restored"
  /\ sdf_pc' = [sdf_pc EXCEPT ![t] = "done"]
  /\ UNCHANGED <<sdf_dofn, sdf_user_do_fn, sdf_process_fn, sdf_par_do_dofn>>

SdfInit ==
  /\ sdf_dofn = UserDoFn
  /\ sdf_pc = [t \in SdfThreads |-> "start"]
  /\ sdf_user_do_fn = [t \in SdfThreads |-> NoFn]
  /\ sdf_process_fn = [t \in SdfThreads |-> NoFn]
  /\ sdf_par_do_dofn = [t \in SdfThreads |-> NoFn]

SdfNext ==
  \E t \in SdfThreads :
    \/ SDF_ReadDofn(t)
    \/ SDF_NewProcessFn(t)
    \/ SDF_SetProcessFn(t)
    \/ SDF_ResetDofn(t)
    \/ SDF_BuildParDoEvaluator(t)
    \/ SDF_RestoreDofn(t)
    \/ SDF_SetInvoker(t)

(***************************************************************************)
(* _FlattenEvaluator, lines 219-240.  An uncommitted bundle is the         *)
(* sequence of the elements output to it.                                  *)
(***************************************************************************)
FlattenElements == {WindowedValue("int", <<x>>) : x \in {"x", "y"}}
\* evaluation_context.create_bundle(output_pcollection)
CreateBundle == <<>>
\* bundle.output(element)
BundleOutput(bundle, element) == Append(bundle, element)

\* __init__ and start_bundle, lines 222-232
Flat_Construct ==
  /\ FlatOnly
  /\ flat_pc = "idle"
  /\ flat_invocations < MaxFlattenInvocations
  /\ flat_invocations' = flat_invocations + 1
  /\ flat_given' = <<>>
  /\ \E side_inputs \in BOOLEAN, n_outputs \in 1..MaxOutputs :
       IF side_inputs \/ n_outputs # 1
         THEN \* the assert of line 224 or of line 230
              /\ flat_last' = Outcome("start_bundle", "AssertionError", <<>>,
                                      "none")
              /\ UNCHANGED <<flat_pc, flat_bundle>>
         ELSE /\ flat_pc' = "started"
              /\ flat_bundle' = CreateBundle
              /\ flat_last' = Outcome("start_bundle", "ok", <<>>, "none")

\* process_element, lines 234-235
Flat_ProcessElement(e) ==
  /\ FlatOnly
  /\ flat_pc = "started"
  /\ Len(flat_given) < MaxFlattenLen
  /\ flat_bundle' = BundleOutput(flat_bundle, e)
  /\ flat_given' = Append(flat_given, e)
  /\ flat_last' = Outcome("process_element", "ok", <<>>, "none")
  /\ UNCHANGED <<flat_pc, flat_invocations>>

\* line 238: bundles = [self.bundle]
FlattenBundlesSkipsEmpty(bundle) == IF bundle = <<>> THEN <<>> ELSE <<bundle>>
FlattenBundles(bundle) == <<bundle>>

\* finish_bundle, lines 237-240: the result carries no watermark hold
Flat_FinishBundle ==
  /\ FlatOnly
  /\ flat_pc = "started"
  /\ flat_pc' = "idle"
  /\ flat_last' = Outcome("finish_bundle", "ok", FlattenBundles(flat_bundle),
                          "none")
  /\ UNCHANGED <<flat_bundle, flat_given, flat_invocations>>

FlatInit ==
  /\ flat_pc = "idle"
  /\ flat_bundle = <<>>
  /\ flat_given = <<>>
  /\ flat_last = NoCall
  /\ flat_invocations = 0

FlatNext ==
  \/ Flat_Construct
  \/ \E e \in FlattenElements : Flat_ProcessElement(e)
  \/ Flat_FinishBundle

(***************************************************************************)
(* _BoundedReadEvaluator, lines 179-216.  The source yields the values     *)
(* 1..n; sources are sized around multiples of the per-bundle cap.         *)
(***************************************************************************)
\* line 183
MAX_ELEMENT_PER_BUNDLE == 1000
ReadSourceLens ==
  {0, 1} \cup {k * MAX_ELEMENT_PER_BUNDLE + d :
                 k \in 1..MaxReadBundles, d \in {0, 1}}
ReadCalls ==
  [input_committed_bundle : BOOLEAN,  \* an input bundle is given
   side_inputs : BOOLEAN,             \* side_inputs non-empty
   n_outputs : 1..MaxOutputs]
\* GlobalWindows.windowed_value(e)
GlobalWindowedValue(e) == [value |-> e, windows |-> <<"GlobalWindow">>]

\* line 200: read_result
ReadResult(reader) == [i \in DOMAIN reader |-> GlobalWindowedValue(reader[i])]

\* the cap given to _split_list_into_bundles, line 203
ReadCapNone == NoneCap
ReadCap == IntCap(MAX_ELEMENT_PER_BUNDLE)

\* __init__, lines 185-193
Read_Construct ==
  /\ ReadOnly
  /\ read_pc = "idle"
  /\ \E c \in ReadCalls, n \in ReadSourceLens :
       /\ read_call' = c
       /\ read_source' = [i \in 1..n |-> i]
       /\ IF c.input_committed_bundle \/ c.side_inputs
            THEN \* the asserts of lines 187-188
                 /\ read_pc' = "done"
                 /\ read_last' = Outcome("__init__", "AssertionError", <<>>,
                                         "none")
            ELSE /\ read_pc' = "started"
                 /\ read_last' = Outcome("__init__", "ok", <<>>, "none")
  /\ UNCHANGED <<read_i, read_st>>

\* finish_bundle, lines 195-203: the assert, then the source is read (a
\* BoundedSource through a range tracker over its whole range, any other
\* source through its reader: either way the values in read order) and
\* _split_list_into_bundles is entered (lines 153-155)
Read_FinishBundle ==
  /\ ReadOnly
  /\ read_pc = "started"
  /\ IF read_call.n_outputs # 1
       THEN \* the assert of line 196
            /\ read_pc' = "done"
            /\ read_last' = Outcome("finish_bundle", "AssertionError", <<>>,
                                    "none")
            /\ UNCHANGED read_st
       ELSE /\ read_pc' = "split"
            /\ read_st' = SplitInit
            /\ UNCHANGED read_last
  /\ UNCHANGED <<read_call, read_source, read_i>>

\* one iteration of the loop of _split_list_into_bundles (lines 156-163)
\* over read_result; the size function is lambda _: 1
Read_SplitIterate ==
  /\ ReadOnly
  /\ read_pc = "split"
  /\ read_i < Len(read_source)
  /\ read_st' = SplitStep(read_st, ReadResult(read_source)[read_i + 1], 1,
                          ReadCap)
  /\ read_i' = read_i + 1
  /\ UNCHANGED <<read_pc, read_call, read_source, read_last>>

\* lines 164 and 215-216: the bundles are returned, with no watermark hold
Read_Return ==
  /\ ReadOnly
  /\ read_pc = "split"
  /\ read_i = Len(read_source)
  /\ read_pc' = "done"
  /\ read_last' = Outcome("finish_bundle", "ok", read_st.bundles, "none")
  /\ UNCHANGED <<read_call, read_source, read_i, read_st>>

ReadInit ==
  /\ read_pc = "idle"
  /\ read_call = [input_committed_bundle |-> FALSE, side_inputs |-> FALSE,
                  n_outputs |-> 1]
  /\ read_source = <<>>
  /\ read_i = 0
  /\ read_st = NoLocals
  /\ read_last = NoCall

ReadNext ==
  Read_Construct \/ Read_FinishBundle \/ Read_SplitIterate \/ Read_Return

(***************************************************************************)
(* _TaggedReceivers (lines 243-284) and _ParDoEvaluator (lines 287-334).   *)
(* The receivers are a dict from the declared output tags to their output  *)
(* bundles; a lookup of any other tag runs __missing__, whose result is    *)
(* returned and not stored.  _undeclared_in_memory_tag_values is None or a *)
(* defaultdict(list), a function from tags to lists.  The DoFn runner      *)
(* routes each output as tagged_receivers[tag].output(value).              *)
(***************************************************************************)
ParDoTags == {"None", "a", "b"}         \* "None" is the main output's tag
ParDoDeclared == {{"None"}, {"None", "a"}}
ParDoValues == {"x", "y"}
PyNone == [is_none |-> TRUE, dict |-> <<>>]
PyDict(d) == [is_none |-> FALSE, dict |-> d]
\* Python's truth test: None and the empty dict are false
DictTruthy(v) == ~v.is_none /\ DOMAIN v.dict # {}

\* lines 276-277: the dict the new in-memory receiver writes to
UndeclaredTargetAlwaysNew(values) == PyDict(<<>>)
UndeclaredTarget(values) ==
  IF ~DictTruthy(values) THEN PyDict(<<>>) ELSE values

\* _InMemoryReceiver.output, line 272: target[tag].append(element), target
\* a defaultdict(list)
InMemoryOutput(target, tag, element) ==
  LET old == IF tag \in DOMAIN target.dict THEN target.dict[tag] ELSE <<>>
      rest == [t \in DOMAIN target.dict \ {tag} |-> target.dict[t]]
  IN PyDict((tag :> Append(old, element)) @@ rest)

\* the dict after __missing__(key) has run: dict.__getitem__ returns what
\* __missing__ returns (line 284) and stores nothing
ReceiversAfterMissingStored(receivers, key) ==
  (key :> CreateBundle) @@ receivers
ReceiversAfterMissing(receivers, key) == receivers

\* _ParDoEvaluator.start_bundle, lines 289-323
ParDo_StartBundle ==
  /\ ParDoOnly
  /\ pardo_pc = "idle"
  /\ pardo_pc' = "started"
  /\ pardo_has_cache' \in BOOLEAN
  /\ \E declared \in ParDoDeclared :
       /\ pardo_receivers' = [t \in declared |-> CreateBundle]
       /\ pardo_declared' = declared
  /\ pardo_undeclared' = PyNone
  /\ pardo_null_receiver' = FALSE
  /\ UNCHANGED <<pardo_emitted, pardo_last>>

\* the DoFn emits `element` to `tag`: tagged_receivers[tag].output(element),
\* with __missing__ (lines 274-284) for a tag that is not a key of the dict
ParDo_Output(tag, element) ==
  /\ ParDoOnly
  /\ pardo_pc = "started"
  /\ Len(pardo_emitted) < MaxParDoOutputs
  /\ pardo_emitted' = Append(pardo_emitted, <<tag, element>>)
  /\ IF tag \in DOMAIN pardo_receivers
       THEN /\ pardo_receivers' =
                 [pardo_receivers EXCEPT ![tag] = BundleOutput(@, element)]
            /\ UNCHANGED <<pardo_undeclared, pardo_null_receiver>>
       ELSE IF pardo_has_cache
         THEN LET target == UndeclaredTarget(pardo_undeclared)
              IN /\ pardo_undeclared' = InMemoryOutput(target, tag, element)
                 /\ pardo_receivers' =
                      ReceiversAfterMissing(pardo_receivers, tag)
                 /\ UNCHANGED pardo_null_receiver
         ELSE \* NullReceiver.output, lines 261-262
              /\ pardo_null_receiver' = TRUE
              /\ pardo_receivers' = ReceiversAfterMissing(pardo_receivers, tag)
              /\ UNCHANGED pardo_undeclared
  /\ UNCHANGED <<pardo_pc, pardo_has_cache, pardo_last, pardo_declared>>

\* finish_bundle, lines 328-334, with the property of lines 252-256
ParDo_FinishBundle ==
  /\ ParDoOnly
  /\ pardo_pc = "started"
  /\ pardo_pc' = "done"
  /\ pardo_last' =
       IF ~DictTruthy(pardo_undeclared) \/ pardo_has_cache
         THEN [status |-> "ok", bundles |-> pardo_receivers,
               undeclared |-> pardo_undeclared]
         ELSE [status |-> "AssertionError", bundles |-> <<>>,
               undeclared |-> PyNone]
  /\ UNCHANGED <<pardo_has_cache, pardo_receivers, pardo_undeclared,
                 pardo_null_receiver, pardo_emitted, pardo_declared>>

ParDoInit ==
  /\ pardo_pc = "idle"
  /\ pardo_has_cache = FALSE
  /\ pardo_receivers = <<>>
  /\ pardo_undeclared = PyNone
  /\ pardo_null_receiver = FALSE
  /\ pardo_emitted = <<>>
  /\ pardo_declared = {}
  /\ pardo_last = [status |-> "none", bundles |-> <<>>, undeclared |-> PyNone]

ParDoNext ==
  \/ ParDo_StartBundle
  \/ \E tag \in ParDoTags, element \in ParDoValues : ParDo_Output(tag, element)
  \/ ParDo_FinishBundle

(***************************************************************************)
(* OutputAndTimeBoundSplittableProcessElementInvoker.invoke_process_element *)
(* (sdf_common.py, lines 199-205).  The tracker argument is no tracker at   *)
(* all, a bare RestrictionTracker (lines 19-34: every method raises         *)
(* NotImplementedError) or a tracker of a user's subclass, whose check_done *)
(* fails unless the whole restriction was claimed.  A returned value is     *)
(* <<>> for None and <<a, b>> for the tuple (a, b).                         *)
(***************************************************************************)
InvTrackers == {"not_a_tracker", "RestrictionTracker", "subclass"}
InvArgs ==
  [invoker_is_dofn_invoker : BOOLEAN,
   element : {"e1", "e2"},
   tracker : InvTrackers,
   restriction : 0..MaxRestriction]
InvNoOutcome == [status |-> "none", value |-> <<>>]
InvRaised(error) == [status |-> error, value |-> <<>>]

\* invoke_process_element is called
Inv_Call ==
  /\ InvOnly
  /\ inv_pc = "idle"
  /\ inv_pc' = "asserts"
  /\ inv_args' \in InvArgs
  /\ UNCHANGED <<inv_claimed, inv_trace, inv_outcome>>

\* lines 200-201
Inv_Asserts ==
  /\ InvOnly
  /\ inv_pc = "asserts"
  /\ IF inv_args.invoker_is_dofn_invoker /\ inv_args.tracker # "not_a_tracker"
       THEN inv_pc' = "invoke" /\ UNCHANGED inv_outcome
       ELSE inv_pc' = "done" /\ inv_outcome' = InvRaised("AssertionError")
  /\ UNCHANGED <<inv_args, inv_claimed, inv_trace>>

\* what follows invoker.invoke_process when it returns: line 205
InvAfterInvokeProcessReturns == "return"
InvAfterInvokeProcess == "check_done"

\* line 203: invoker.invoke_process(element, tracker).  The user's logic
\* claims some part of the restriction and returns, or raises.
Inv_InvokeProcess ==
  /\ InvOnly
  /\ inv_pc = "invoke"
  /\ inv_trace' = Append(inv_trace, <<"invoke_process", inv_args.element>>)
  /\ \/ /\ \E k \in 0..inv_args.restriction :
              /\ inv_args.tracker = "RestrictionTracker" => k = 0
              /\ inv_claimed' = k
          /\ inv_pc' = InvAfterInvokeProcess
          /\ UNCHANGED inv_outcome
     \/ /\ inv_pc' = "done"
        /\ inv_outcome' = InvRaised("UserError")
        /\ UNCHANGED inv_claimed
  /\ UNCHANGED inv_args

\* tracker.check_done()
TrackerCheckDone ==
  IF inv_args.tracker = "RestrictionTracker" THEN "NotImplementedError"
  ELSE IF inv_claimed < inv_args.restriction THEN "CheckDoneError"
  ELSE "ok"

\* line 205
Inv_CheckDone ==
  /\ InvOnly
  /\ inv_pc = "check_done"
  /\ inv_trace' = Append(inv_trace, <<"check_done">>)
  /\ IF TrackerCheckDone = "ok"
       THEN inv_pc' = "return" /\ UNCHANGED inv_outcome
       ELSE inv_pc' = "done" /\ inv_outcome' = InvRaised(TrackerCheckDone)
  /\ UNCHANGED <<inv_args, inv_claimed>>

\* the end of the function body: no return statement, None is returned
Inv_Return ==
  /\ InvOnly
  /\ inv_pc = "return"
  /\ inv_pc' = "done"
  /\ inv_outcome' = [status |-> "ok", value |-> <<>>]
  /\ UNCHANGED <<inv_args, inv_claimed, inv_trace>>

InvInit ==
  /\ inv_pc = "idle"
  /\ inv_args = [invoker_is_dofn_invoker |-> TRUE, element |-> "e1",
                 tracker |-> "subclass", restriction |-> 0]
  /\ inv_claimed = 0
  /\ inv_trace = <<>>
  /\ inv_outcome = InvNoOutcome

InvNext ==
  Inv_Call \/ Inv_Asserts \/ Inv_InvokeProcess \/ Inv_CheckDone \/ Inv_Return

(***************************************************************************)
(* _PipelineContextMap (pipeline_context.py, lines 31-65), for one object  *)
(* type T.  The id "ref_T_n" is <<"ref", n>>; <<"x", 1>> is an id of any    *)
(* other form.  An object is told from every other by its key: the objects *)
(* a caller holds, and the object from_runner_api builds for the proto     *)
(* stored under an id.  Dictionaries are functions.                        *)
(***************************************************************************)
ContextProtos == {"pA", "pB"}
ContextProtoIds == {<<"ref", 1>>, <<"ref", 2>>, <<"x", 1>>}
ContextIds == ContextProtoIds \cup {<<"ref", n>> : n \in 1..MaxContextRefs}
ContextEmptyDict == [id \in {} |-> "pA"]
ContextProtoMaps ==
  UNION {[ids -> ContextProtos] : ids \in SUBSET ContextProtoIds}
ContextCallerObjects ==
  {[kind |-> "caller", key |-> <<"obj", 1>>, proto |-> "pA"],
   [kind |-> "caller", key |-> <<"obj", 2>>, proto |-> "pB"]}

\* obj.to_runner_api(context)
ToRunnerApi(obj) == obj.proto
\* obj_type.from_runner_api(proto, context), called for the proto of id
FromRunnerApi(proto, id) == [kind |-> "decoded", key |-> id, proto |-> proto]

\* the objects a caller can pass to get_id: its own, and those get_by_id
\* has returned
ContextKnownObjects ==
  ContextCallerObjects \cup {ctx_id_to_obj[id] : id \in DOMAIN ctx_id_to_obj}

\* _unique_ref, lines 45-47: the id made after the counter was incremented
UniqueRefRepeated(counter) == <<"ref", 1>>
UniqueRef(counter) == <<"ref", counter>>

ContextCall(op, arg, status, result, generated) ==
  [op |-> op, arg |-> arg, status |-> status, result |-> result,
   generated |-> generated]
ContextConstructed == ctx_last.op # "none"

\* no map has been constructed yet
ContextInit ==
  /\ ctx_proto_map = ContextEmptyDict
  /\ ctx_id_to_proto = ContextEmptyDict
  /\ ctx_obj_to_id = <<>>
  /\ ctx_id_to_obj = <<>>
  /\ ctx_counter = 0
  /\ ctx_last = ContextCall("none", <<>>, "none", <<>>, FALSE)

\* __init__, lines 37-43: proto_map if proto_map else {}
Ctx_Construct ==
  /\ CtxOnly
  /\ ~ContextConstructed
  /\ ctx_proto_map' \in ContextProtoMaps
  /\ ctx_id_to_proto' =
       IF DOMAIN ctx_proto_map' # {} THEN ctx_proto_map' ELSE ContextEmptyDict
  /\ ctx_obj_to_id' = <<>>
  /\ ctx_id_to_obj' = <<>>
  /\ ctx_counter' = 0
  /\ ctx_last' = ContextCall("__init__", <<>>, "ok", <<>>, FALSE)

\* get_id, lines 53-59
Ctx_GetId ==
  /\ CtxOnly
  /\ ContextConstructed
  /\ \E obj \in ContextKnownObjects :
       IF obj \notin DOMAIN ctx_obj_to_id
         THEN /\ ctx_counter < MaxContextRefs
              /\ ctx_counter' = ctx_counter + 1
              /\ LET id == UniqueRef(ctx_counter')
                 IN /\ ctx_id_to_obj' = (id :> obj) @@ ctx_id_to_obj
                    /\ ctx_obj_to_id' = (obj :> id) @@ ctx_obj_to_id
                    /\ ctx_id_to_proto' =
                         (id :> ToRunnerApi(obj)) @@ ctx_id_to_proto
                    /\ ctx_last' = [op |-> "get_id", arg |-> <<obj>>,
                                    status |-> "ok",
                                    result |-> <<ctx_obj_to_id'[obj]>>,
                                    generated |-> TRUE]
         ELSE /\ ctx_last' = [op |-> "get_id", arg |-> <<obj>>,
                              status |-> "ok",
                              result |-> <<ctx_obj_to_id[obj]>>,
                              generated |-> FALSE]
              /\ UNCHANGED <<ctx_obj_to_id, ctx_id_to_obj, ctx_id_to_proto,
                             ctx_counter>>
  /\ UNCHANGED ctx_proto_map

\* get_by_id, lines 61-65
Ctx_GetById ==
  /\ CtxOnly
  /\ ContextConstructed
  /\ \E id \in ContextIds :
       IF id \in DOMAIN ctx_id_to_obj
         THEN /\ ctx_last' = [op |-> "get_by_id", arg |-> <<id>>,
                              status |-> "ok",
                              result |-> <<ctx_id_to_obj[id]>>,
                              generated |-> FALSE]
              /\ UNCHANGED ctx_id_to_obj
         ELSE IF id \in DOMAIN ctx_id_to_proto
           THEN /\ ctx_id_to_obj' =
                     (id :> FromRunnerApi(ctx_id_to_proto[id], id))
                       @@ ctx_id_to_obj
                /\ ctx_last' = [op |-> "get_by_id", arg |-> <<id>>,
                                status |-> "ok",
                                result |-> <<ctx_id_to_obj'[id]>>,
                                generated |-> FALSE]
           ELSE /\ ctx_last' = ContextCall("get_by_id", <<id>>, "KeyError",
                                           <<>>, FALSE)
                /\ UNCHANGED ctx_id_to_obj
  /\ UNCHANGED <<ctx_obj_to_id, ctx_id_to_proto, ctx_counter, ctx_proto_map>>

ContextNext == Ctx_Construct \/ Ctx_GetId \/ Ctx_GetById

(***************************************************************************)
(* The specifications.                                                     *)
(***************************************************************************)
InitIdle == GbkInit /\ SinkInit /\ SplitIdle /\ RegInit /\ SdfInit /\
            FlatInit /\ ReadInit /\ ParDoInit /\ InvInit /\ ContextInit
InitSplit == GbkInit /\ SinkInit /\ SplitInit0 /\ RegInit /\ SdfInit /\
             FlatInit /\ ReadInit /\ ParDoInit /\ InvInit /\ ContextInit

SpecGBK == InitIdle /\ [][GbkNext]_vars
SpecSink == InitIdle /\ [][SinkNext]_vars
SpecSplit == InitSplit /\ [][SplitNext]_vars
SpecRegistry == InitIdle /\ [][RegNext]_vars
SpecSDF == InitIdle /\ [][SdfNext]_vars
SpecFlatten == InitIdle /\ [][FlatNext]_vars
SpecRead == InitIdle /\ [][ReadNext]_vars
SpecParDo == InitIdle /\ [][ParDoNext]_vars
SpecInvoker == InitIdle /\ [][InvNext]_vars
SpecContextMap == InitIdle /\ [][ContextNext]_vars

(***************************************************************************)
(* Properties of the GroupByKeyOnly step, checked under SpecGBK.           *)
(***************************************************************************)
\* the records of all output bundles returned so far, in emission order
EmittedRecords == Concat(gbk_emitted)
KeysAppended == {gbk_appended[i][1] : i \in DOMAIN gbk_appended}

\* the values appended for key k, in append order
RECURSIVE ValuesFor(_, _)
ValuesFor(k, appended) ==
  IF appended = <<>> THEN <<>>
  ELSE IF Head(appended)[1] = k
         THEN <<Head(appended)[2]>> \o ValuesFor(k, Tail(appended))
         ELSE ValuesFor(k, Tail(appended))

\* a step that is a finish_bundle call
GbkFinishStep ==
  gbk_pc = "started" /\ gbk_pc' = "idle" /\ gbk_last'.op = "finish_bundle"

\* C1: once finish_bundle has been called with the input watermark at +inf,
\* the output bundles of all finish_bundle calls together hold exactly one
\* (key, values) record per key ever processed and no other record, and the
\* record's values are the values appended for the key, in append order.
C1_ExactlyOnceGrouping ==
  gbk_finals > 0 =>
    /\ \A k \in GbkKeys :
         Cardinality({i \in DOMAIN EmittedRecords :
                        EmittedRecords[i].items[1] = k})
           = IF k \in KeysAppended THEN 1 ELSE 0
    /\ \A i \in DOMAIN EmittedRecords :
         /\ EmittedRecords[i].windowed
         /\ EmittedRecords[i].items[1] \in KeysAppended
         /\ EmittedRecords[i].items[2]
              = ValuesFor(EmittedRecords[i].items[1], gbk_appended)

C1_Witness ==
  /\ gbk_finals > 0
  /\ Len(gbk_appended) = MaxGbkCalls
  /\ Cardinality(KeysAppended) = Cardinality(GbkKeys)
  /\ \E i \in DOMAIN EmittedRecords : Len(EmittedRecords[i].items[2]) > 1

\* C2: with the completion flag set, every finish_bundle call made with the
\* input watermark at +inf can be made, raises nothing, returns no output
\* bundle, emits nothing and leaves the flag set.
C2_IdempotentFinalBundle ==
  /\ [](gbk_pc = "started" /\ GbkGlobalCompleted => ENABLED GBK_FinishBundle)
  /\ [][(GbkFinishStep /\ GbkGlobalCompleted
           /\ gbk_input_watermark = WATERMARK_POS_INF)
          => /\ gbk_last'.status = "ok"
             /\ gbk_last'.bundles = <<>>
             /\ gbk_emitted' = gbk_emitted
             /\ GbkGlobalCompleted']_vars

C2_Witness ==
  /\ gbk_finals = MaxGbkFinals
  /\ GbkGlobalCompleted
  /\ gbk_last.op = "finish_bundle"
  /\ gbk_last.bundles = <<>>
  /\ EmittedRecords # <<>>

\* C3: a finish_bundle call made with the input watermark below +inf returns
\* no output bundle, requests a -inf hold, leaves the completion flag unset
\* and the keyed state as it is; the keyed state holds every value appended;
\* nothing is emitted while the input watermark is below +inf.
C3_NoOutputBeforeFinal ==
  /\ [][(GbkFinishStep /\ gbk_input_watermark # WATERMARK_POS_INF)
          => /\ gbk_last'.status = "ok"
             /\ gbk_last'.bundles = <<>>
             /\ gbk_last'.hold = WATERMARK_NEG_INF
             /\ ~GbkGlobalCompleted'
             /\ keyed_existing_state' = keyed_existing_state]_vars
  /\ [](\A k \in KeysAppended :
          keyed_existing_state[Encode(k)].elements = ValuesFor(k, gbk_appended))
  /\ [](gbk_input_watermark # WATERMARK_POS_INF => gbk_emitted = <<>>)

C3_Witness ==
  /\ gbk_last.op = "finish_bundle"
  /\ gbk_last.hold = WATERMARK_NEG_INF
  /\ gbk_input_watermark # WATERMARK_POS_INF
  /\ gbk_appended # <<>>
  /\ gbk_pc = "idle"

(***************************************************************************)
(* Properties of the sink step, checked under SpecSink.                    *)
(***************************************************************************)
\* a step that is a finish_bundle call, returning or raising
SinkFinishStep == sink_pc = "started" /\ sink_pc' # "started"

\* a finish_bundle call made at +inf has returned
SinkOutputProduced ==
  \/ sink_output_watermark = WATERMARK_POS_INF
  \/ /\ sink_last.op = "finish_bundle"
     /\ sink_last.status = "ok"
     /\ sink_last.hold = WATERMARK_POS_INF

SinkInputValues == [i \in DOMAIN sink_input |-> ScalarValue(sink_input[i])]

C6_TrailingBundleIgnored ==
  [][(SinkFinishStep /\ sink_output_watermark = WATERMARK_POS_INF)
       => /\ sink_last'.status = "ok"
          /\ sink_writer_opens' = sink_writer_opens
          /\ sink_written' = sink_written]_vars

(***************************************************************************)
(* Properties of _split_list_into_bundles, checked under SpecSplit.        *)
(***************************************************************************)
CeilDiv(a, b) == (a + b - 1) \div b
ConstantOne == split_size_fn = [x \in SplitItems |-> 1]
SplitDoneWithCountCap ==
  /\ split_pc = "done"
  /\ split_cap # NoneCap
  /\ split_cap[1] >= 1
  /\ ConstantOne

\* C7 as stated: with a cap N >= 1 and the size function 1, the helper
\* returns ceil(len/N) bundles of at most N elements each.
C7_AsStated ==
  SplitDoneWithCountCap =>
    /\ Len(split_st.bundles) = CeilDiv(Len(split_elements), split_cap[1])
    /\ \A i \in DOMAIN split_st.bundles :
         Len(split_st.bundles[i]) <= split_cap[1]

\* C7 amended: ceil(len/N) bundles for a non-empty input, one (empty) bundle
\* for the empty input; at most N elements each.
C7_BundleCount ==
  SplitDoneWithCountCap =>
    /\ Len(split_st.bundles) =
         IF split_elements = <<>> THEN 1
         ELSE CeilDiv(Len(split_elements), split_cap[1])
    /\ \A i \in DOMAIN split_st.bundles :
         Len(split_st.bundles[i]) <= split_cap[1]

C7_Witness ==
  /\ SplitDoneWithCountCap
  /\ Len(split_elements) = MaxSplitLen
  /\ Len(split_st.bundles) > 1
  /\ Len(split_st.bundles) < Len(split_elements)

\* the summed sizes of the elements of the bundle being filled
RECURSIVE SumSizes(_)
SumSizes(bundle) ==
  IF bundle = <<>> THEN 0
  ELSE split_size_fn[Head(bundle)] + SumSizes(Tail(bundle))
RunningSize == SumSizes(split_st.bundles[Len(split_st.bundles)])
SplitIterateStep == split_pc = "loop" /\ split_i' = split_i + 1
StartedNewBundle == Len(split_st'.bundles) = Len(split_st.bundles) + 1

Registered(cls) == cls \in DOMAIN Evaluators
\* the asserts of lines 70-71 hold of the call
RegCallAccepted == reg_call.transform_side_inputs = reg_call.side_inputs
RegResolved == reg_pc \in {"walked", "done"} /\ RegCallAccepted

\* the evaluator of the first registered class of a hierarchy, if any
FirstRegistered(mro) ==
  IF \E i \in DOMAIN mro : Registered(mro[i])
    THEN LET i == CHOOSE i \in DOMAIN mro :
                    /\ Registered(mro[i])
                    /\ \A j \in 1..(i - 1) : ~Registered(mro[j])
         IN Evaluators[mro[i]]
    ELSE "None"

\* C9: the walk resolves the transform to the evaluator registered for the
\* first registered class of its hierarchy, most-derived first; an
\* unregistered subclass of a registered class resolves to that class's
\* evaluator; the evaluator built is the one resolved.
C9_DispatchHierarchy ==
  RegResolved =>
    /\ reg_evaluator = FirstRegistered(Mro(reg_call.cls))
    /\ \A base \in DOMAIN Evaluators :
         (~Registered(reg_call.cls) /\ Bases[reg_call.cls] = <<base>>)
           => reg_evaluator = Evaluators[base]
    /\ (reg_pc = "done" /\ reg_outcome.status = "ok")
         => reg_outcome.evaluator = reg_evaluator

C9_Witness ==
  /\ reg_pc = "done"
  /\ reg_call.cls = "MyOtherParDo"
  /\ reg_outcome.status = "ok"
  /\ reg_outcome.evaluator = "_ParDoEvaluator"

\* C10: a call on a transform none of whose hierarchy classes is registered
\* ends in NotImplementedError, with no evaluator built, no start_bundle run
\* and no bundle created; NotImplementedError is raised in no other case.
C10_UnregisteredFails ==
  (reg_pc = "done" /\ RegCallAccepted) =>
    /\ (\A i \in DOMAIN Mro(reg_call.cls) : ~Registered(Mro(reg_call.cls)[i]))
         => /\ reg_outcome.status = "NotImplementedError"
            /\ reg_outcome.evaluator = "None"
            /\ reg_effects = NoEffects
    /\ reg_outcome.status = "NotImplementedError"
         => \A i \in DOMAIN Mro(reg_call.cls) : ~Registered(Mro(reg_call.cls)[i])

C10_Witness ==
  /\ reg_pc = "done"
  /\ reg_call.cls = "MyCreate"
  /\ reg_outcome.status = "NotImplementedError"
  /\ reg_effects = NoEffects

\* cls is base or derives from it, directly or not
RECURSIVE IsSubtype(_, _)
IsSubtype(cls, base) ==
  \/ cls = base
  \/ \E i \in DOMAIN Bases[cls] : IsSubtype(Bases[cls][i], base)
SerialKinds == {"_GroupByKeyOnly", "_NativeWrite"}
SerialEvaluators == {"_GroupByKeyOnlyEvaluator", "_NativeWriteEvaluator"}

\* C11: should_execute_serially returns true exactly for the transforms
\* whose class is _GroupByKeyOnly or _NativeWrite or derives from one of
\* them (so false for Read, Flatten, ParDo, ProcessKeyedElements and the
\* classes deriving only from these), and every transform that
\* for_application resolves to the grouping or the sink evaluator is serial.
C11_SerialKinds ==
  reg_serial # <<>> =>
    /\ reg_serial[1] = (\E k \in SerialKinds : IsSubtype(reg_call.cls, k))
    /\ reg_call.cls \in {"Read", "Flatten", "ParDo", "ProcessKeyedElements",
                          "MyParDo", "MyOtherParDo", "FlattenAndParDo"}
         => reg_serial[1] = FALSE
    /\ (reg_pc \in {"walked", "done"} /\ reg_evaluator \in SerialEvaluators)
         => reg_serial[1] = TRUE

C11_Witness ==
  /\ reg_pc = "done"
  /\ reg_call.cls = "MyGroupByKeyOnly"
  /\ reg_outcome.evaluator = "_GroupByKeyOnlyEvaluator"
  /\ reg_serial = <<TRUE>>

(***************************************************************************)
(* Error handling of the GroupByKeyOnly step, checked under SpecGBK.       *)
(***************************************************************************)
\* a step that is a process_element call
GbkProcessStep == gbk_pc = "started" /\ gbk_calls' = gbk_calls + 1
\* the COMPLETION_TAG state of the global key is set
CompletionFlagSet ==
  /\ NoneKey \in DOMAIN keyed_existing_state
  /\ keyed_existing_state[NoneKey].completed

\* C12: once the completion flag is set, every process_element call, on
\* any element, fails with AssertionError and leaves the whole keyed state
\* (every key's list and the flag) as it was; the flag is never unset.
C12_ProcessAfterCompletionFails ==
  /\ [][(GbkProcessStep /\ CompletionFlagSet)
         => /\ gbk_last'.status = "AssertionError"
            /\ keyed_existing_state' = keyed_existing_state]_vars
  /\ [][CompletionFlagSet => CompletionFlagSet']_vars

C12_Witness ==
  /\ gbk_last.op = "process_element"
  /\ gbk_last.status = "AssertionError"
  /\ CompletionFlagSet
  /\ gbk_appended # <<>>

NothingAppended ==
  /\ keyed_existing_state' = keyed_existing_state
  /\ gbk_appended' = gbk_appended
PairAppended(e) ==
  /\ gbk_last'.status = "ok"
  /\ gbk_appended' = Append(gbk_appended, <<e.items[1], e.items[2]>>)
  /\ keyed_existing_state'[Encode(e.items[1])].elements =
       ValuesFor(e.items[1], gbk_appended')

\* C13 as stated: process_element accepts exactly the windowed values whose
\* payload is a 2-tuple; every other element fails with TypeCheckError and
\* nothing is appended.
C13_AsStated ==
  [][(GbkProcessStep /\ ~CompletionFlagSet) =>
       LET e == gbk_element'
       IN IF e.windowed /\ e.type = "tuple" /\ Len(e.items) = 2
            THEN PairAppended(e)
            ELSE gbk_last'.status = "TypeCheckError" /\ NothingAppended]_vars

\* C13 amended: process_element accepts exactly the windowed values whose
\* payload is an iterable of length 2 (a tuple, a list); a windowed value
\* whose payload is an iterable without a length fails with TypeError, every
\* other element with TypeCheckError, and a failure appends nothing.
C13_ShapeCheck ==
  [][(GbkProcessStep /\ ~CompletionFlagSet) =>
       LET e == gbk_element'
       IN IF e.windowed /\ e.type \in {"tuple", "list"} /\ Len(e.items) = 2
            THEN PairAppended(e)
            ELSE /\ NothingAppended
                 /\ gbk_last'.status =
                      IF e.windowed /\ e.type = "generator"
                        THEN "TypeError" ELSE "TypeCheckError"]_vars

C13_Witness ==
  /\ gbk_last.op = "process_element"
  /\ gbk_last.status = "TypeCheckError"
  /\ gbk_element = WindowedValue("tuple", <<"k1", "a", "b">>)
  /\ gbk_appended # <<>>

\* C14: when process_element fails on an element of a bundle, the keyed
\* state is the state the step had when the bundle was started: nothing
\* appended for the bundle's earlier elements remains.
C14_NoPartialApplication ==
  [][(GbkProcessStep /\ gbk_last'.status # "ok")
       => keyed_existing_state' = gbk_start_state]_vars

\* C15: after finish_bundle has returned or raised no writer is left open,
\* and a finish_bundle in which a Write fails raises to the caller with no
\* hold returned, the writer it opened having been closed.
C15_WriterAlwaysClosed ==
  /\ [](sink_writer_opens = sink_writer_closes)
  /\ [][(SinkFinishStep /\ sink_last'.status = "WriteError")
         => /\ sink_last'.hold = "none"
            /\ sink_writer_opens' = sink_writer_opens + 1
            /\ sink_writer_closes' = sink_writer_closes + 1]_vars

C15_Witness ==
  /\ sink_last.status = "WriteError"
  /\ sink_written # <<>>
  /\ Len(sink_written) < Len(sink_elements)
  /\ sink_writer_opens = 1
  /\ sink_writer_closes = 1

(***************************************************************************)
(* Concurrent construction of _ProcessElemenetsEvaluator, under SpecSDF.   *)
(***************************************************************************)
\* C16: under every interleaving of the constructions, each constructor
\* captures the original user function as its user_do_fn, and once all
\* constructions have finished the shared transform's dofn is the original
\* user function.
C16_ConcurrentConstructionSafe ==
  /\ \A t \in SdfThreads :
       sdf_pc[t] # "start" => sdf_user_do_fn[t] = UserDoFn
  /\ (\A t \in SdfThreads : sdf_pc[t] = "done") => sdf_dofn = UserDoFn

(***************************************************************************)
(* The Flatten evaluator, checked under SpecFlatten.                       *)
(***************************************************************************)
FlatFinishStep == flat_pc = "started" /\ flat_pc' = "idle"

\* C18: every finish_bundle of a Flatten evaluator returns exactly one
\* output bundle, holding exactly the elements given to process_element
\* during that invocation, in order (one empty bundle when none was given),
\* and no watermark hold.
C18_FlattenOneBundle ==
  [][FlatFinishStep =>
       /\ flat_last'.status = "ok"
       /\ Len(flat_last'.bundles) = 1
       /\ flat_last'.bundles[1] = flat_given
       /\ flat_last'.hold = "none"]_vars

C18_Witness ==
  /\ flat_last.op = "finish_bundle"
  /\ flat_invocations = MaxFlattenInvocations
  /\ Len(flat_last.bundles) = 1
  /\ Len(flat_last.bundles[1]) = 2
  /\ flat_last.bundles[1][1] # flat_last.bundles[1][2]

(***************************************************************************)
(* The bounded-read evaluator, checked under SpecRead.                     *)
(***************************************************************************)
\* C19: the evaluator is built only when no input bundle and no side
\* inputs are given (an assertion fails otherwise); a finish_bundle that
\* returns emits the values read from the source, each once and in read
\* order, as global-window values, in at least one bundle and in bundles of
\* at most MAX_ELEMENT_PER_BUNDLE elements, and requests no hold.
C19_BoundedRead ==
  /\ (read_last.op = "__init__" /\ read_pc # "idle") =>
        (read_last.status = "AssertionError"
           <=> (read_call.input_committed_bundle \/ read_call.side_inputs))
  /\ read_pc = "started" =>
        ~(read_call.input_committed_bundle \/ read_call.side_inputs)
  /\ (read_last.op = "finish_bundle" /\ read_last.status = "ok") =>
        /\ Len(read_last.bundles) >= 1
        /\ \A i \in DOMAIN read_last.bundles :
             Len(read_last.bundles[i]) <= MAX_ELEMENT_PER_BUNDLE
        /\ Concat(read_last.bundles) =
             [i \in DOMAIN read_source |->
                [value |-> read_source[i], windows |-> <<"GlobalWindow">>]]
        /\ read_last.hold = "none"

C19_Witness ==
  /\ read_last.op = "finish_bundle"
  /\ read_last.status = "ok"
  /\ Len(read_source) = MAX_ELEMENT_PER_BUNDLE + 1
  /\ Len(read_last.bundles) = 2
  /\ Len(read_last.bundles[2]) = 1

(***************************************************************************)
(* Undeclared outputs of a ParDo, checked under SpecParDo.                 *)
(***************************************************************************)
\* the values emitted to tag, in emission order
RECURSIVE EmittedTo(_, _)
EmittedTo(tag, emitted) ==
  IF emitted = <<>> THEN <<>>
  ELSE IF Head(emitted)[1] = tag
         THEN <<Head(emitted)[2]>> \o EmittedTo(tag, Tail(emitted))
         ELSE EmittedTo(tag, Tail(emitted))
UndeclaredTags == ParDoTags \ DOMAIN pardo_receivers
\* the in-memory list of tag: empty when there is no dict or no entry
InMemoryList(values, tag) ==
  IF ~values.is_none /\ tag \in DOMAIN values.dict
    THEN values.dict[tag] ELSE <<>>

\* C20: without a results cache every output to an undeclared tag is
\* discarded and the result's undeclared outputs are None; with the cache
\* the in-memory list of every undeclared tag holds exactly the values
\* emitted to it, in emission order, during the evaluation and in the
\* result; the undeclared in-memory outputs are non-empty only if the cache
\* is active.
C20_UndeclaredOutputs ==
  pardo_pc # "idle" =>
    /\ ~pardo_has_cache =>
          /\ pardo_undeclared = PyNone
          /\ pardo_pc = "done" =>
                (pardo_last.status = "ok" /\ pardo_last.undeclared = PyNone)
    /\ pardo_has_cache =>
          /\ \A tag \in UndeclaredTags :
               InMemoryList(pardo_undeclared, tag) =
                 EmittedTo(tag, pardo_emitted)
          /\ pardo_pc = "done" =>
                /\ pardo_last.status = "ok"
                /\ pardo_last.undeclared = pardo_undeclared
    /\ DictTruthy(pardo_undeclared) => pardo_has_cache
    /\ \A tag \in DOMAIN pardo_receivers :
         pardo_receivers[tag] = EmittedTo(tag, pardo_emitted)

C20_Witness ==
  /\ pardo_pc = "done"
  /\ pardo_has_cache
  /\ UndeclaredTags = {"a", "b"}
  /\ InMemoryList(pardo_last.undeclared, "b") = <<"x", "y">>
  /\ InMemoryList(pardo_last.undeclared, "a") = <<"y">>

\* a step in which the DoFn emits to a tag that was not declared
UndeclaredOutputStep ==
  /\ pardo_pc = "started"
  /\ Len(pardo_emitted') = Len(pardo_emitted) + 1
  /\ pardo_emitted'[Len(pardo_emitted')][1] \notin pardo_declared

\* C21: the tagged-receiver map holds one bundle per declared output tag
\* from start_bundle on, an output to an undeclared tag adds no entry to it,
\* and the bundles finish_bundle returns are exactly these, one per declared
\* tag, however many outputs went to undeclared tags.
C21_OneBundlePerDeclaredTag ==
  /\ [](pardo_pc # "idle" => DOMAIN pardo_receivers = pardo_declared)
  /\ [][UndeclaredOutputStep => pardo_receivers' = pardo_receivers]_vars
  /\ []((pardo_pc = "done" /\ pardo_last.status = "ok")
          => /\ DOMAIN pardo_last.bundles = pardo_declared
             /\ \A tag \in pardo_declared :
                  pardo_last.bundles[tag] = EmittedTo(tag, pardo_emitted))

C21_Witness ==
  /\ pardo_pc = "done"
  /\ pardo_last.status = "ok"
  /\ pardo_declared = {"None", "a"}
  /\ DOMAIN pardo_last.bundles = {"None", "a"}
  /\ Len(EmittedTo("b", pardo_emitted)) = 2
  /\ Len(pardo_last.bundles["a"]) = 1

\* the inner ParDo evaluator of thread t has been constructed and started
SdfParDoBuilt(t) == sdf_pc[t] \in {"built", "restored", "done"}

\* C22: the inner ParDo evaluator of a splittable-work evaluator runs the
\* ProcessFn wrapper built by new_process_fn: the dofn it read from the
\* transform when it was constructed and started is the evaluator's
\* process_fn, not the bare user function.
C22_InnerParDoRunsWrapper ==
  \A t \in SdfThreads :
    SdfParDoBuilt(t) =>
      /\ sdf_par_do_dofn[t] = sdf_process_fn[t]
      /\ sdf_par_do_dofn[t] # UserDoFn

(***************************************************************************)
(* The bounded invoker, checked under SpecInvoker.                         *)
(***************************************************************************)
InvExpectedTrace ==
  << <<"invoke_process", inv_args.element>>, <<"check_done">> >>
InvArgsAccepted ==
  inv_args.invoker_is_dofn_invoker /\ inv_args.tracker # "not_a_tracker"

\* C23: invoke_process_element calls the user's logic with the element and
\* the tracker, then tracker.check_done(), once each and in that order;
\* check_done is never called first, it is called whenever the user's logic
\* returns, and when it fails its error is what the caller gets.
C23_CheckDoneAfterProcess ==
  /\ \E n \in 0..2 : inv_trace = SubSeq(InvExpectedTrace, 1, n)
  /\ (inv_pc = "done" /\ inv_outcome.status = "ok")
       => inv_trace = InvExpectedTrace
  /\ (inv_pc = "done" /\ InvArgsAccepted /\ inv_outcome.status # "UserError")
       => /\ inv_trace = InvExpectedTrace
          /\ inv_args.tracker = "subclass"
               => (inv_outcome.status = "CheckDoneError"
                     <=> inv_claimed < inv_args.restriction)

C23_Witness ==
  /\ inv_pc = "done"
  /\ inv_outcome.status = "CheckDoneError"
  /\ inv_trace = InvExpectedTrace
  /\ inv_claimed > 0
  /\ inv_claimed < inv_args.restriction

\* C24: a call of invoke_process_element that returns, returns a pair
\* (residual restriction, future-output watermark estimate).
C24_ReturnsResidualAndWatermark ==
  (inv_pc = "done" /\ inv_outcome.status = "ok")
    => Len(inv_outcome.value) = 2

(***************************************************************************)
(* _PipelineContextMap, checked under SpecContextMap.                      *)
(***************************************************************************)
ContextIdsKept ==
  \A obj \in DOMAIN ctx_obj_to_id :
    /\ obj \in DOMAIN ctx_obj_to_id'
    /\ ctx_obj_to_id'[obj] = ctx_obj_to_id[obj]

\* C25: whatever get_id and get_by_id calls were made, get_id returns the id
\* recorded for its object and that id never changes, two distinct objects
\* have distinct ids, and get_by_id of an object's id returns that object.
C25_BiDirectionalMap ==
  /\ [][ContextIdsKept]_vars
  /\ [](ctx_last.op = "get_id"
          => ctx_last.result = <<ctx_obj_to_id[ctx_last.arg[1]]>>)
  /\ [](\A o1, o2 \in DOMAIN ctx_obj_to_id :
          o1 # o2 => ctx_obj_to_id[o1] # ctx_obj_to_id[o2])
  /\ [](\A obj \in DOMAIN ctx_obj_to_id :
          /\ ctx_obj_to_id[obj] \in DOMAIN ctx_id_to_obj
          /\ ctx_id_to_obj[ctx_obj_to_id[obj]] = obj)
  /\ []((ctx_last.op = "get_by_id" /\ ctx_last.status = "ok")
          => ctx_last.result = <<ctx_id_to_obj[ctx_last.arg[1]]>>)

C25_Witness ==
  /\ ctx_last.op = "get_by_id"
  /\ ctx_last.status = "ok"
  /\ ctx_last.result[1] \in DOMAIN ctx_obj_to_id
  /\ ctx_obj_to_id[ctx_last.result[1]] = ctx_last.arg[1]
  /\ ctx_last.result[1].kind = "caller"
  /\ \E obj \in DOMAIN ctx_obj_to_id : obj.kind = "decoded"
  /\ Cardinality(DOMAIN ctx_obj_to_id) = 3

\* C28: in a map constructed from a non-empty proto map, an id generated by
\* get_id is not an id of that proto map, every id of the proto map keeps
\* its proto, and the object held for it is the one decoded from that proto.
C28_GeneratedIdsAvoidProtoMap ==
  DOMAIN ctx_proto_map # {}
    => /\ ctx_last.generated => ctx_last.result[1] \notin DOMAIN ctx_proto_map
       /\ \A id \in DOMAIN ctx_proto_map :
            /\ ctx_id_to_proto[id] = ctx_proto_map[id]
            /\ id \in DOMAIN ctx_id_to_obj
                 => ctx_id_to_obj[id] = FromRunnerApi(ctx_proto_map[id], id)

(***************************************************************************)
(* The list states of a GroupByKeyOnly step, checked under SpecGBK.        *)
(***************************************************************************)
IsPrefix(s, t) == Len(s) <= Len(t) /\ SubSeq(t, 1, Len(s)) = s
ListStatesExtended ==
  \A key \in DOMAIN keyed_existing_state :
    /\ key \in DOMAIN keyed_existing_state'
    /\ IsPrefix(keyed_existing_state[key].elements,
                keyed_existing_state'[key].elements)

\* C26: every step of a GroupByKeyOnly step (start_bundle, a process_element
\* that succeeds or fails, finish_bundle, final or not) keeps every key and
\* leaves each key's value list with its earlier contents as a prefix.
C26_ListStateAppendOnly == [][ListStatesExtended]_vars

C26_Witness ==
  /\ gbk_last.op = "process_element"
  /\ gbk_last.status = "TypeCheckError"
  /\ Encode("k1") \in DOMAIN gbk_start_state
  /\ gbk_start_state[Encode("k1")].elements = <<"a">>
  /\ keyed_existing_state[Encode("k1")].elements = <<"a", "b">>

(***************************************************************************)
(* The bundles of _split_list_into_bundles as a partition of its input,    *)
(* checked under SpecSplit.                                                *)
(***************************************************************************)
NoEmptyBundle(bundles) == \A i \in DOMAIN bundles : bundles[i] # <<>>
NegativeCap == split_cap # NoneCap /\ split_cap[1] < 0

====
